---- MODULE Spec2Model ----
(***************************************************************************)
(* dmarc_dsn_processor: the DSN extractor (dmarc_dsn_processor.py) and the *)
(* postfix discard-table builder (build_postfix_discard_table.py).         *)
(*                                                                         *)
(* A text (a Python str) is a sequence of tokens.  A token is a word, or   *)
(* one whitespace character (SP, NL).  The regular expressions of the      *)
(* source are operators on such sequences that do what re.sub / re.search  *)
(* do on the characters.  Python's None and a missing dict key are the     *)
(* reserved texts None and Absent.                                         *)
(***************************************************************************)
EXTENDS Integers, Sequences, FiniteSets, TLC

(* ------------------------------ bounds -------------------------------- *)
MaxRuns == 2
MaxDay == 1
MaxRcpts == 2
MaxLines == 2

(* ------------------------------ tokens -------------------------------- *)
SP == " "
NL == "\n"
WS == {SP, NL}
None == <<"<None>">>
Absent == <<"<absent>">>
RD == "Report Domain:"
SUB == "Submitter:"
SubmitterWords == {"Submitter:", "Submitter"}
DomainWords == {"a.org", "b.org"}
LocalWords == {"rcpt"}
DigitWords == {"123"}

SetMax(S) == CHOOSE x \in S : \A y \in S : y <= x
SetMin(S) == CHOOSE x \in S : \A y \in S : x <= y

(* validators.domain(value): one word that is a domain name *)
ValidDomain(t) == Len(t) = 1 /\ t[1] \in DomainWords

(* validators.email(value): local-part "@" domain *)
ValidEmail(t) == Len(t) = 3 /\ t[1] \in LocalWords /\ t[2] = "@" /\ t[3] \in DomainWords

(* str.replace("=", "@") *)
ReplaceEqAt(t) == [i \in 1..Len(t) |-> IF t[i] = "=" THEN "@" ELSE t[i]]

RECURSIVE DropWS(_)
DropWS(t) == IF t # <<>> /\ Head(t) \in WS THEN DropWS(Tail(t)) ELSE t

(* unfold: re.sub(RE_MULTILINE, one space, header_value), RE_MULTILINE a  *)
(* newline followed by whitespace                                         *)
RECURSIVE unfold(_)
unfold(t) ==
    IF t = <<>> THEN <<>>
    ELSE IF Head(t) = NL /\ Len(t) >= 2 /\ t[2] \in WS
         THEN <<SP>> \o unfold(DropWS(Tail(t)))
         ELSE <<Head(t)>> \o unfold(Tail(t))

(* re.sub(RE_822_PREFIX, empty, value): rfc822; and one optional whitespace *)
RECURSIVE Strip822(_)
Strip822(t) ==
    IF t = <<>> THEN <<>>
    ELSE IF Head(t) = "rfc822;"
         THEN IF Len(t) >= 2 /\ t[2] \in WS
              THEN Strip822(SubSeq(t, 3, Len(t)))
              ELSE Strip822(Tail(t))
         ELSE <<Head(t)>> \o Strip822(Tail(t))

(* re.sub(RE_REPORT_DOMAIN, empty, subject): the greedy .* ends at the     *)
(* last Report Domain: of the first line that whitespace follows.          *)
SubReportDomain(t) ==
    LET I == {i \in 1..(Len(t) - 1) :
                 /\ t[i] = RD
                 /\ t[i + 1] \in WS
                 /\ \A k \in 1..(i - 1) : t[k] # NL}
    IN IF I = {} THEN t ELSE SubSeq(t, SetMax(I) + 2, Len(t))

(* re.sub(RE_SUBMITTER, empty, text): from the leftmost Submitter: that    *)
(* has whitespace on both sides, to the end of the text.                   *)
SubSubmitter(t) ==
    LET J == {j \in 2..(Len(t) - 1) :
                 /\ t[j] = SUB
                 /\ t[j - 1] \in WS
                 /\ t[j + 1] \in WS
                 /\ \A k \in (j + 2)..Len(t) : t[k] # NL}
    IN IF J = {} THEN t ELSE SubSeq(t, 1, SetMin(J) - 2)

(* re.search(RE_REFERENCES_REPORT_DOMAIN, references): group 1, the text  *)
(* between the leading < and the last -digits@, or None                    *)
SearchReferences(t) ==
    LET K == {k \in 2..(Len(t) - 2) :
                 /\ t[k] = "-"
                 /\ t[k + 1] \in DigitWords
                 /\ t[k + 2] = "@"}
    IN IF Len(t) >= 1 /\ t[1] = "<" /\ K # {} /\ (\A k \in 1..Len(t) : t[k] # NL)
       THEN SubSeq(t, 2, SetMax(K) - 1)
       ELSE None

(* re.search(RE_BODY_REPORT_DOMAIN, mail_data), a MULTILINE pattern: a     *)
(* candidate match is the pair of the position of Report Domain: and the   *)
(* last position of group 1.  The search returns                           *)
(* the match of the first line that has one; in it both .* are greedy.     *)
LineStart(t, i) == SetMax({p \in 1..i : p = 1 \/ t[p - 1] = NL})

BodyCandidates(t) ==
    {c \in (1..Len(t)) \X (1..Len(t)) :
        LET i == c[1]
            e == c[2]
        IN /\ t[i] = RD
           /\ i + 1 <= Len(t) /\ t[i + 1] \in WS
           /\ e >= i + 1 /\ e + 2 <= Len(t)
           /\ \A k \in (i + 2)..e : t[k] # NL
           /\ t[e + 1] \in WS
           /\ t[e + 2] \in SubmitterWords}

(* faulty variant: the match of the last line that has one *)
SearchBodyReportDomain_last_line(t) ==
    LET C == BodyCandidates(t)
    IN IF C = {} THEN None
       ELSE LET p == SetMax({LineStart(t, c[1]) : c \in C})
                i == SetMax({c[1] : c \in {d \in C : LineStart(t, d[1]) = p}})
                e == SetMax({c[2] : c \in {d \in C : d[1] = i}})
            IN SubSeq(t, i + 2, e)

SearchBodyReportDomain(t) ==
    LET C == BodyCandidates(t)
    IN IF C = {} THEN None
       ELSE LET p == SetMin({LineStart(t, c[1]) : c \in C})
                i == SetMax({c[1] : c \in {d \in C : LineStart(t, d[1]) = p}})
                e == SetMax({c[2] : c \in {d \in C : d[1] = i}})
            IN SubSeq(t, i + 2, e)

(* --------------------------- the rcpt dict ---------------------------- *)
(* A key the dict does not hold is Absent; a key holding None is None.    *)
Rcpt(action, final_rcpt, orig_rcpt, diag_code, status, report_domain, date) ==
    [action |-> action, final_rcpt |-> final_rcpt, orig_rcpt |-> orig_rcpt,
     diag_code |-> diag_code, status |-> status,
     report_domain |-> report_domain, date |-> date]

(* today.strftime of %Y%m%d, days counted from 2024-01-01 *)
DateStr(day) == <<ToString(20240101 + day)>>

(* What a function that may call save_message and sys.exit(0) did: exit   *)
(* with the reasons saved, or return value.                               *)
Exit(reasons) == [exit |-> TRUE, save |-> reasons, value |-> None, recs |-> <<>>]
ReturnValue(v) == [exit |-> FALSE, save |-> <<>>, value |-> v, recs |-> <<>>]
ReturnRecs(r) == [exit |-> FALSE, save |-> <<>>, value |-> None, recs |-> r]

get_report_domain_from_subject(subject) ==
    IF subject = None THEN ReturnValue(None)
    ELSE LET report_domain == SubSubmitter(SubReportDomain(subject))
         IN IF subject = report_domain THEN Exit(<<"no_subject_re_match">>)
            ELSE IF ~ValidDomain(report_domain) THEN Exit(<<"no_report_domain">>)
            ELSE ReturnValue(report_domain)

GGFrom == <<"Mail Delivery Subsystem <mailer-daemon@googlemail.com>">>

HeaderMissing(h) ==
    h.x_failed_recipients = None \/ h.references = None \/ h.in_reply_to = None

(* faulty variant: References is not compared with In-Reply-To *)
process_googlegroups_dsn_no_compare(msg) ==
    IF msg.from # GGFrom THEN ReturnRecs(<<>>)
    ELSE IF HeaderMissing(msg) THEN ReturnRecs(<<>>)
    ELSE LET report_domain == SearchReferences(msg.references)
         IN IF report_domain = None
            THEN Exit(<<"no_report_domain_in_references_header">>)
            ELSE IF ~ValidDomain(report_domain) THEN Exit(<<"no_report_domain">>)
            ELSE ReturnRecs(<<Rcpt(<<"failed">>, msg.x_failed_recipients,
                                   msg.x_failed_recipients, Absent, <<"5.1.1">>,
                                   report_domain, Absent)>>)

process_googlegroups_dsn(msg) ==
    IF msg.from # GGFrom THEN ReturnRecs(<<>>)
    ELSE IF HeaderMissing(msg) THEN ReturnRecs(<<>>)
    ELSE IF msg.references # msg.in_reply_to THEN ReturnRecs(<<>>)
    ELSE LET report_domain == SearchReferences(msg.references)
         IN IF report_domain = None
            THEN Exit(<<"no_report_domain_in_references_header">>)
            ELSE IF ~ValidDomain(report_domain) THEN Exit(<<"no_report_domain">>)
            ELSE ReturnRecs(<<Rcpt(<<"failed">>, msg.x_failed_recipients,
                                   msg.x_failed_recipients, Absent, <<"5.1.1">>,
                                   report_domain, Absent)>>)

process_with_extension(extension, mail_data, DATE) ==
    LET report_rcpt == ReplaceEqAt(extension)
    IN IF ~ValidEmail(report_rcpt) THEN Exit(<<"no_report_rcpt_in_extension">>)
       ELSE LET report_domain == SearchBodyReportDomain(mail_data)
            IN IF report_domain = None THEN Exit(<<"no_report_domain_in_message">>)
               ELSE IF ~ValidDomain(report_domain) THEN Exit(<<"no_report_domain">>)
               ELSE ReturnRecs(<<Rcpt(<<"any_reason">>, Absent, ReplaceEqAt(extension),
                                      Absent, Absent, report_domain, DATE)>>)

(* process_dsn, the subparts of one message/delivery-status part: the     *)
(* result is the recipients, and delayed = TRUE when the walk met         *)
(* Action: delayed and called sys.exit(0).                                *)
HasBoth(subpart) == subpart.action # None /\ subpart.final_recipient # None

BlockRcpt(subpart) ==
    LET final_rcpt == Strip822(subpart.final_recipient)
    IN Rcpt(subpart.action, final_rcpt,
            IF subpart.original_recipient # None
            THEN Strip822(subpart.original_recipient) ELSE final_rcpt,
            IF subpart.diagnostic_code # None
            THEN unfold(subpart.diagnostic_code) ELSE None,
            subpart.status, Absent, Absent)

(* faulty variant: a delayed action is collected like any other *)
RECURSIVE WalkStatus_no_delay(_, _)
WalkStatus_no_delay(subparts, recipients) ==
    IF subparts = <<>> THEN [delayed |-> FALSE, recipients |-> recipients]
    ELSE IF HasBoth(Head(subparts))
         THEN WalkStatus_no_delay(Tail(subparts),
                                  Append(recipients, BlockRcpt(Head(subparts))))
         ELSE WalkStatus_no_delay(Tail(subparts), recipients)

RECURSIVE WalkStatus(_, _)
WalkStatus(subparts, recipients) ==
    IF subparts = <<>> THEN [delayed |-> FALSE, recipients |-> recipients]
    ELSE IF HasBoth(Head(subparts))
         THEN IF Head(subparts).action = <<"delayed">>
              THEN [delayed |-> TRUE, recipients |-> recipients]
              ELSE WalkStatus(Tail(subparts), Append(recipients, BlockRcpt(Head(subparts))))
         ELSE WalkStatus(Tail(subparts), recipients)

(* process_dsn, the embedded subject of a message/rfc822 or               *)
(* text/rfc822-headers part: the first Subject that is not None           *)
WalkSubject(part, orig_subject) ==
    IF part.ctype \in {"message/rfc822", "text/rfc822-headers"}
       /\ orig_subject = None /\ part.subject # None
    THEN unfold(part.subject)
    ELSE orig_subject

(* process_dsn, one part of msg.walk() *)
WalkPart(part, recipients, orig_subject) ==
    LET ds == IF part.ctype = "message/delivery-status"
              THEN WalkStatus(part.subparts, recipients)
              ELSE [delayed |-> FALSE, recipients |-> recipients]
    IN [delayed |-> ds.delayed, recipients |-> ds.recipients,
        orig_subject |-> WalkSubject(part, orig_subject)]

(* process_dsn after the walk: every rcpt without report_domain gets the  *)
(* subject's, and every rcpt the date                                     *)
(* faulty variant: only the first rcpt gets the subject's report_domain *)
FillRecs_first_only(recipients, report_domain, DATE) ==
    [i \in 1..Len(recipients) |->
        [recipients[i] EXCEPT
            !.report_domain = IF @ = Absent
                              THEN (IF i = 1 THEN report_domain ELSE None) ELSE @,
            !.date = DATE]]

FillRecs(recipients, report_domain, DATE) ==
    [i \in 1..Len(recipients) |->
        [recipients[i] EXCEPT
            !.report_domain = IF @ = Absent THEN report_domain ELSE @,
            !.date = DATE]]

process_dsn_end(recipients, orig_subject, msg, DATE) ==
    LET s == get_report_domain_from_subject(orig_subject)
    IN IF s.exit THEN s
       ELSE LET g == IF recipients = <<>> THEN process_googlegroups_dsn(msg)
                     ELSE ReturnRecs(recipients)
            IN IF g.exit THEN g
               ELSE ReturnRecs(FillRecs(g.recs, s.value, DATE))

(* --------------------------- the file system -------------------------- *)
(* A domain file is a sequence of bytes: the JSON text of one rcpt dict   *)
(* is one token, the newline another.  files maps the names under         *)
(* DATA_DIR/domains/ to [data, mtime].                                    *)
NoRcpt == Rcpt(Absent, Absent, Absent, Absent, Absent, Absent, Absent)
JsonTok(dsn) == [k |-> "json", v |-> dsn]
NlTok == [k |-> "nl", v |-> NoRcpt]

(* json.dumps(dsn) + newline *)
JsonLine(dsn) == <<JsonTok(dsn), NlTok>>

(* open(filename, 'a'): creates the file when missing; the handle holds   *)
(* the size found                                                         *)
OpenAppend(fs, name, day) ==
    IF name \in DOMAIN fs THEN fs ELSE fs @@ (name :> [data |-> <<>>, mtime |-> day])

(* faulty variant: the file opened for writing, which truncates it *)
WriteAppend_truncate(fs, name, offset, bytes, day) ==
    [fs EXCEPT ![name] = [data |-> bytes, mtime |-> day]]

(* faulty variant: no O_APPEND, the bytes go to the offset found at open *)
WriteAppend_at_offset(fs, name, offset, bytes, day) ==
    [fs EXCEPT ![name] =
        [data |-> SubSeq(@.data, 1, offset) \o bytes
                  \o SubSeq(@.data, offset + Len(bytes) + 1, Len(@.data)),
         mtime |-> day]]

(* the one write(2) of the buffered text at close, on an O_APPEND         *)
(* descriptor: the bytes go to the end of the file, whatever the size     *)
(* was at open                                                            *)
WriteAppend(fs, name, offset, bytes, day) ==
    [fs EXCEPT ![name] = [data |-> @.data \o bytes, mtime |-> day]]

(* the text lines of a file: each ends with its newline, the last one     *)
(* may not                                                                *)
RECURSIVE FileLines(_)
FileLines(data) ==
    IF data = <<>> THEN <<>>
    ELSE LET N == {i \in 1..Len(data) : data[i] = NlTok}
             n == IF N = {} THEN Len(data) ELSE SetMin(N)
         IN <<SubSeq(data, 1, n)>> \o FileLines(SubSeq(data, n + 1, Len(data)))

(* json.loads(line) succeeds on one JSON text, with or without newline *)
IsJsonLine(line) ==
    /\ Len(line) \in {1, 2}
    /\ line[1].k = "json"
    /\ Len(line) = 2 => line[2] = NlTok
JsonLoads(line) == line[1].v

(* ------------------------------ inputs -------------------------------- *)
DataDir == <<"/data">>
DirSet == {DataDir, <<"/ro">>, <<"/missing">>}
IsDir(d) == d \in {DataDir, <<"/ro">>}
Writable(d) == d = DataDir
DefaultDir == <<"./dmarc_dsn_processor">>

QueueIds == {<<"4F2A">>}
ExtensionSet ==
    {<<>>, <<"rcpt", "=", "a.org">>, <<"rcpt", "a.org">>, <<"rcpt", "=", "=", "a.org">>}
ArgvSet ==
    LET prog == <<"dmarc_dsn_processor.py">>
    IN {<<prog>>}
       \cup {<<prog, q>> : q \in QueueIds}
       \cup {<<prog, q, x>> : q \in QueueIds, x \in ExtensionSet}
       \cup {<<prog, q, x, d>> : q \in QueueIds, x \in ExtensionSet, d \in DirSet}
EnvDirSet == {DataDir}

SeqsUpTo(S, n) == UNION {[1..k -> S] : k \in 0..n}

(* the header blocks of a message/delivery-status part *)
Block(action, final_recipient, original_recipient, diagnostic_code, status) ==
    [action |-> action, final_recipient |-> final_recipient,
     original_recipient |-> original_recipient,
     diagnostic_code |-> diagnostic_code, status |-> status]
BlockSet ==
    { Block(<<"failed">>, <<"rfc822;", SP, "f@x.org">>, <<"rfc822;", "o@y.org">>,
            <<"550", NL, SP, "unknown">>, <<"5.1.1">>),
      Block(<<"delayed">>, <<"rfc822;", SP, "f@x.org">>, None, None, <<"4.4.1">>),
      Block(<<"delayed">>, None, None, None, None) }

SubjectSet ==
    { <<RD, SP, "a.org", SP, SUB, SP, "x.net">>,
      <<"Fwd:", SP, RD, NL, SP, "b.org", SP, SUB, SP, "x.net">>,
      <<"hello">>,
      <<"a.org", SP, SUB, SP, "x.net">>,
      <<"hello", SP, SUB, SP, "x.net">>,
      <<RD, SP, "hello", SP, SUB, SP, "x.net">> }

Part(ctype, subparts, subject) ==
    [ctype |-> ctype, subparts |-> subparts, subject |-> subject]
PartSet ==
    {Part("message/delivery-status", b, None) : b \in SeqsUpTo(BlockSet, MaxRcpts)}
    \cup {Part(c, <<>>, s) : c \in {"message/rfc822", "text/rfc822-headers"},
                             s \in SubjectSet \cup {None}}
    \cup {Part("text/plain", <<>>, None)}

(* the top-level headers process_googlegroups_dsn reads *)
RefA == <<"<", "a.org", "-", "123", "@", "mx.google.com", ">">>
RefOther == <<"<", "CAF", "@", "mail.gmail.com", ">">>
RefSet == {None, RefA, <<"<", "hello", "-", "123", "@", "mx.google.com", ">">>, RefOther}
HdrSet ==
    {h \in [from : {GGFrom, <<"MAILER-DAEMON@mx.x.net">>},
            x_failed_recipients : {None, <<"g@z.org">>},
            references : RefSet, in_reply_to : RefSet] :
        /\ h.in_reply_to = h.references \/ (h.references = RefA /\ h.in_reply_to = RefOther)
        /\ h.from = GGFrom \/ h.x_failed_recipients # None}
NoHdrs ==
    [from |-> None, x_failed_recipients |-> None, references |-> None,
     in_reply_to |-> None]

(* the raw message as process_with_extension searches it *)
LineSet ==
    { <<"Subject:", SP, RD, SP, "a.org", SP, SUB, SP, "x.net">>,
      <<RD, SP, "hello", SP, "Submitter">>,
      <<"Action:", SP, "delayed">>,
      <<"Final-Recipient:", SP, "rfc822;", SP, "f@x.org">> }
RECURSIVE JoinLines(_)
JoinLines(ls) == IF ls = <<>> THEN <<>> ELSE Head(ls) \o <<NL>> \o JoinLines(Tail(ls))
BodySet == {JoinLines(ls) : ls \in SeqsUpTo(LineSet, MaxLines)}

(* ------------------------------ state --------------------------------- *)
VARIABLES
    today,          \* the current day
    subdirs,        \* the subdirectories of DataDir that exist
    files,          \* DataDir/domains/: name -> [data, mtime]
    pc,             \* idle, or the position of the one running program
    runs,           \* extractor runs started
    exitCode,       \* exit code of the running program, -1 while it runs
    argv, env,      \* extractor: sys.argv and ENV[DATA_DIR]
    mail_data,      \* extractor: MAIL_DATA, once process_with_extension searches it
    recipients, orig_subject,              \* extractor: process_dsn
    delayed,        \* extractor: a part walked so far holds a delayed subpart
    hdrs,           \* extractor: the headers of msg
    dsn_details, idx,                      \* extractor: dsn_detail_to_data_dir
    saved,          \* the reasons of this run's save_message calls, in order
    appended,       \* the [file, dsn] this run appended, in order
    benv,           \* builder: ENV[DATA_DIR], ENV[MIN_AGE]
    listed, listing, output,               \* builder: the scan and stdout
    procs           \* concurrent writers (SpecWriters only)

extVars == <<argv, env, mail_data, recipients, orig_subject, delayed,
             hdrs, dsn_details, idx, saved, appended>>
bldVars == <<benv, listed, listing, output>>
vars == <<today, subdirs, files, pc, runs, exitCode, extVars, bldVars, procs>>

(* --------------------------- the extractor ---------------------------- *)
NoFiles == [n \in {} |-> [data |-> <<>>, mtime |-> 0]]
IdleProcs == [p \in {} |-> 0]

ExtIdle ==
    /\ argv = <<>> /\ env = None /\ mail_data = None
    /\ recipients = <<>> /\ orig_subject = None /\ delayed = FALSE
    /\ hdrs = NoHdrs /\ dsn_details = <<>> /\ idx = 0
    /\ saved = <<>> /\ appended = <<>>
BldIdle ==
    /\ benv = [DATA_DIR |-> None, MIN_AGE |-> None]
    /\ listed = FALSE /\ listing = {} /\ output = <<>>

Init ==
    /\ today = 0 /\ subdirs = {} /\ files = NoFiles
    /\ pc = "idle" /\ runs = 0 /\ exitCode = -1
    /\ ExtIdle /\ BldIdle
    /\ procs = IdleProcs

(* main, the arguments and DATA_DIR: what ends the run with exit code 1,  *)
(* or the data directory.  sys.argv[3] of a three-element argv raises     *)
(* IndexError, which ends the run with a traceback and exit code 1.       *)
Configure(a, e) ==
    IF Len(a) < 3 THEN [ok |-> FALSE, why |-> "usage", dir |-> None]
    ELSE IF Len(a) > 2 /\ Len(a) < 4
         THEN [ok |-> FALSE, why |-> "IndexError", dir |-> None]
    ELSE LET dir == IF Len(a) > 2 /\ a[4] # None THEN a[4]
                    ELSE IF e = None THEN DefaultDir ELSE e
         IN IF ~IsDir(dir) THEN [ok |-> FALSE, why |-> "not a directory", dir |-> dir]
            ELSE IF ~Writable(dir) THEN [ok |-> FALSE, why |-> "not writable", dir |-> dir]
            ELSE [ok |-> TRUE, why |-> "", dir |-> dir]

QUEUE_ID == argv[2]
EXTENSION == argv[3]
DATE == DateStr(today)

(* main up to the strategy dispatch: the configuration, the mkdir of the  *)
(* subdirectories, DATE                                                   *)
ExtStart(a, e) ==
    /\ pc = "idle" /\ runs < MaxRuns
    /\ runs' = runs + 1
    /\ argv' = a /\ env' = e
    /\ LET cfg == Configure(a, e)
       IN /\ exitCode' = IF cfg.ok THEN -1 ELSE 1
          /\ subdirs' = IF cfg.ok THEN subdirs \cup {"domains", "saved"} ELSE subdirs
          /\ pc' = IF ~cfg.ok THEN "exited"
                   ELSE IF a[3] # <<>> THEN "extension" ELSE "walk"
    /\ UNCHANGED <<today, files, mail_data, recipients, orig_subject,
                   delayed, hdrs, dsn_details, idx, saved, appended, bldVars, procs>>

(* main after the strategy returned or exited: an exit keeps what was     *)
(* saved; no dsn_details is saved as no_dsn_details; else the records go  *)
(* to dsn_detail_to_data_dir                                              *)
AfterStrategy(r) ==
    IF r.exit
    THEN saved' = r.save /\ dsn_details' = <<>> /\ idx' = 0
         /\ pc' = "exited" /\ exitCode' = 0
    ELSE IF r.recs = <<>>
    THEN saved' = <<"no_dsn_details">> /\ dsn_details' = <<>> /\ idx' = 0
         /\ pc' = "exited" /\ exitCode' = 0
    ELSE saved' = <<>> /\ dsn_details' = r.recs /\ idx' = 1
         /\ pc' = "write" /\ exitCode' = -1

(* EXTENSION is not empty: process_with_extension on the raw message *)
ExtExtension(body) ==
    /\ pc = "extension"
    /\ mail_data' = IF ValidEmail(ReplaceEqAt(EXTENSION)) THEN body ELSE None
    /\ AfterStrategy(process_with_extension(EXTENSION, body, DATE))
    /\ UNCHANGED <<today, subdirs, files, runs, argv, env, recipients,
                   orig_subject, delayed, hdrs, appended, bldVars, procs>>

(* the part holds a delivery-status subpart with Action and                *)
(* Final-Recipient whose Action is delayed                                 *)
PartHasDelayed(part) ==
    /\ part.ctype = "message/delivery-status"
    /\ \E i \in 1..Len(part.subparts) :
          /\ part.subparts[i].action = <<"delayed">>
          /\ part.subparts[i].final_recipient # None

(* process_dsn, one iteration of the loop over msg.walk() *)
ExtWalkPart(part) ==
    /\ pc = "walk"
    /\ LET w == WalkPart(part, recipients, orig_subject)
       IN /\ Len(w.recipients) <= MaxRcpts
          /\ recipients' = w.recipients
          /\ orig_subject' = w.orig_subject
          /\ delayed' = (delayed \/ PartHasDelayed(part))
          /\ pc' = IF w.delayed THEN "exited" ELSE "walk"
          /\ exitCode' = IF w.delayed THEN 0 ELSE -1
    /\ UNCHANGED <<today, subdirs, files, runs, argv, env, mail_data, hdrs,
                   dsn_details, idx, saved, appended, bldVars, procs>>

(* process_dsn after the loop, with recipients: the headers of msg are    *)
(* not read                                                               *)
ExtWalkEnd ==
    /\ pc = "walk" /\ recipients # <<>>
    /\ AfterStrategy(process_dsn_end(recipients, orig_subject, NoHdrs, DATE))
    /\ UNCHANGED <<today, subdirs, files, runs, argv, env, mail_data,
                   recipients, orig_subject, delayed, hdrs, appended, bldVars, procs>>

(* process_dsn after the loop, without recipients: msg has the headers h *)
ExtWalkEndEmpty(h) ==
    /\ pc = "walk" /\ recipients = <<>>
    /\ hdrs' = h
    /\ AfterStrategy(process_dsn_end(recipients, orig_subject, h, DATE))
    /\ UNCHANGED <<today, subdirs, files, runs, argv, env, mail_data,
                   recipients, orig_subject, delayed, appended, bldVars, procs>>

(* dsn_detail_to_data_dir, one iteration: open, write, close *)
AppendRecord(fs, name, dsn, day) ==
    LET opened == OpenAppend(fs, name, day)
    IN WriteAppend(opened, name, Len(opened[name].data), JsonLine(dsn), day)

ExtWrite ==
    /\ pc = "write" /\ idx <= Len(dsn_details)
    /\ LET dsn == dsn_details[idx]
       IN IF dsn.report_domain # None
          THEN /\ files' = AppendRecord(files, dsn.report_domain, dsn, today)
               /\ appended' = Append(appended, [file |-> dsn.report_domain, dsn |-> dsn])
               /\ saved' = saved
          ELSE /\ saved' = Append(saved, "no_report_domain")
               /\ UNCHANGED <<files, appended>>
    /\ idx' = idx + 1
    /\ UNCHANGED <<today, subdirs, pc, runs, exitCode, argv, env, mail_data,
                   recipients, orig_subject, delayed, hdrs, dsn_details, bldVars, procs>>

(* main, the last line: sys.exit(0) *)
ExtExit ==
    /\ pc = "write" /\ idx > Len(dsn_details)
    /\ pc' = "exited" /\ exitCode' = 0
    /\ UNCHANGED <<today, subdirs, files, runs, extVars, bldVars, procs>>

(* the process is gone, and its memory with it *)
Reap ==
    /\ pc \in {"exited", "bexited"}
    /\ pc' = "idle" /\ exitCode' = -1
    /\ argv' = <<>> /\ env' = None /\ mail_data' = None
    /\ recipients' = <<>> /\ orig_subject' = None /\ delayed' = FALSE
    /\ hdrs' = NoHdrs /\ dsn_details' = <<>> /\ idx' = 0
    /\ saved' = <<>> /\ appended' = <<>>
    /\ benv' = [DATA_DIR |-> None, MIN_AGE |-> None]
    /\ listed' = FALSE /\ listing' = {} /\ output' = <<>>
    /\ UNCHANGED <<today, subdirs, files, runs, procs>>

(* a day passes between two runs *)
Tick ==
    /\ pc = "idle" /\ today < MaxDay
    /\ today' = today + 1
    /\ UNCHANGED <<subdirs, files, pc, runs, exitCode, extVars, bldVars, procs>>

(* ---------------------------- the builder ----------------------------- *)
(* int(MIN_AGE): the numerals of the model and their values; any other    *)
(* text raises ValueError                                                 *)
NumeralValue ==
    ("-1" :> -1) @@ ("0" :> 0) @@ ("1" :> 1) @@ ("2" :> 2) @@ ("30" :> 30)
    @@ ("90" :> 90) @@ ("91" :> 91)
IsInt(t) == Len(t) = 1 /\ t[1] \in DOMAIN NumeralValue
IntValue(t) == NumeralValue[t[1]]

MinAgeSet == {None, <<"abc">>} \cup {<<w>> : w \in DOMAIN NumeralValue \ {"30"}}
BldEnvSet ==
    [DATA_DIR : {DataDir}, MIN_AGE : MinAgeSet] \cup {[DATA_DIR |-> None, MIN_AGE |-> None]}

(* faulty variant: no upper limit on MIN_AGE *)
BldConfigure_no_max(be) ==
    LET dir == IF be.DATA_DIR = None THEN DefaultDir ELSE be.DATA_DIR
        text == IF be.MIN_AGE = None THEN <<"30">> ELSE be.MIN_AGE
    IN IF ~IsDir(dir) THEN [ok |-> FALSE, why |-> "not a directory", MIN_AGE |-> 0]
       ELSE IF ~(dir = DataDir /\ "domains" \in subdirs)
            THEN [ok |-> FALSE, why |-> "no domains", MIN_AGE |-> 0]
       ELSE IF ~IsInt(text) THEN [ok |-> FALSE, why |-> "not an integer", MIN_AGE |-> 0]
       ELSE IF IntValue(text) < 0
            THEN [ok |-> FALSE, why |-> "negative", MIN_AGE |-> IntValue(text)]
       ELSE [ok |-> TRUE, why |-> "", MIN_AGE |-> IntValue(text)]

(* main of the builder up to TODAY: exit code 1, or MIN_AGE *)
BldConfigure(be) ==
    LET dir == IF be.DATA_DIR = None THEN DefaultDir ELSE be.DATA_DIR
        text == IF be.MIN_AGE = None THEN <<"30">> ELSE be.MIN_AGE
    IN IF ~IsDir(dir) THEN [ok |-> FALSE, why |-> "not a directory", MIN_AGE |-> 0]
       ELSE IF ~(dir = DataDir /\ "domains" \in subdirs)
            THEN [ok |-> FALSE, why |-> "no domains", MIN_AGE |-> 0]
       ELSE IF ~IsInt(text) THEN [ok |-> FALSE, why |-> "not an integer", MIN_AGE |-> 0]
       ELSE IF IntValue(text) < 0 THEN [ok |-> FALSE, why |-> "negative", MIN_AGE |-> IntValue(text)]
       ELSE IF IntValue(text) > 90 THEN [ok |-> FALSE, why |-> "above 90", MIN_AGE |-> IntValue(text)]
       ELSE [ok |-> TRUE, why |-> "", MIN_AGE |-> IntValue(text)]

MIN_AGE == BldConfigure(benv).MIN_AGE

(* age.days of a file: TODAY minus its modification time, in whole days *)
AgeDays(name) == today - files[name].mtime

(* faulty variant: the comparison turned around *)
Selected_flipped(age_days, min_age) == age_days >= min_age

(* the test of the scan loop that sends a file to handle_dsn *)
Selected(age_days, min_age) == age_days < min_age

(* handle_dsn: the last line of the file as JSON; the table line holds    *)
(* orig_rcpt, the file name and the date, unknown when the date is None.  *)
(* An empty file, a last line that is no JSON text and a record without   *)
(* date or orig_rcpt raise.                                               *)
handle_dsn(name, data) ==
    LET lines == FileLines(data)
    IN IF lines = <<>> \/ ~IsJsonLine(lines[Len(lines)])
       THEN [raised |-> TRUE, map_line |-> [orig_rcpt |-> None, file |-> name, date |-> None]]
       ELSE LET dsn_data == JsonLoads(lines[Len(lines)])
            IN IF dsn_data.date = Absent \/ dsn_data.orig_rcpt = Absent
               THEN [raised |-> TRUE,
                     map_line |-> [orig_rcpt |-> None, file |-> name, date |-> None]]
               ELSE [raised |-> FALSE,
                     map_line |-> [orig_rcpt |-> dsn_data.orig_rcpt, file |-> name,
                                   date |-> IF dsn_data.date = None THEN <<"unknown">>
                                            ELSE dsn_data.date]]

BldStart(be) ==
    /\ pc = "idle"
    /\ benv' = be
    /\ LET cfg == BldConfigure(be)
       IN IF cfg.ok
          THEN listed' = TRUE /\ listing' = DOMAIN files /\ pc' = "scan" /\ exitCode' = -1
          ELSE listed' = FALSE /\ listing' = {} /\ pc' = "bexited" /\ exitCode' = 1
    /\ output' = <<>>
    /\ UNCHANGED <<today, subdirs, files, runs, extVars, procs>>

(* one iteration of the loop over os.listdir *)
BldFile(file) ==
    /\ pc = "scan" /\ file \in listing
    /\ listing' = listing \ {file}
    /\ IF Selected(AgeDays(file), MIN_AGE)
       THEN LET h == handle_dsn(file, files[file].data)
            IN IF h.raised
               THEN pc' = "bexited" /\ exitCode' = 1 /\ output' = output
               ELSE pc' = pc /\ exitCode' = exitCode /\ output' = Append(output, h.map_line)
       ELSE UNCHANGED <<pc, exitCode, output>>
    /\ UNCHANGED <<today, subdirs, files, runs, extVars, benv, listed, procs>>

(* the end of the script *)
BldExit ==
    /\ pc = "scan" /\ listing = {}
    /\ pc' = "bexited" /\ exitCode' = 0
    /\ UNCHANGED <<today, subdirs, files, runs, extVars, bldVars, procs>>

Next ==
    \/ \E a \in ArgvSet, e \in EnvDirSet : ExtStart(a, e)
    \/ \E body \in BodySet : ExtExtension(body)
    \/ \E part \in PartSet : ExtWalkPart(part)
    \/ ExtWalkEnd
    \/ \E h \in HdrSet : ExtWalkEndEmpty(h)
    \/ ExtWrite
    \/ ExtExit
    \/ \E be \in BldEnvSet : BldStart(be)
    \/ \E file \in DOMAIN files : BldFile(file)
    \/ BldExit
    \/ Reap
    \/ Tick

Spec == Init /\ [][Next]_vars

(* ------------------------ concurrent extractors ----------------------- *)
(* Two extractor processes in dsn_detail_to_data_dir at the same time,    *)
(* each with the dsn_details of its own message.  One iteration is three  *)
(* steps: open(filename, 'a'); file.write, which only fills the buffer of *)
(* the text file; and the close at the end of the with block, which       *)
(* writes the buffer with one write(2) on the O_APPEND descriptor.        *)
Writers == {1, 2}

JobSet ==
    LET r == BlockRcpt(Block(<<"failed">>, <<"rfc822;", SP, "f@x.org">>, None, None, None))
        x == process_with_extension(<<"rcpt", "=", "a.org">>,
                 <<RD, SP, "a.org", SP, SUB, SP, "x.net", NL>>, DateStr(0)).recs
    IN {FillRecs(rs, <<d>>, DateStr(0)) :
            rs \in SeqsUpTo({r}, MaxRcpts) \ {<<>>}, d \in DomainWords}
       \cup {x}

InitWriters ==
    /\ today = 0 /\ subdirs = {"domains", "saved"} /\ files = NoFiles
    /\ pc = "writers" /\ runs = 0 /\ exitCode = -1
    /\ ExtIdle /\ BldIdle
    /\ procs \in [Writers -> [pc : {"open"}, dsn_details : JobSet, idx : {1},
                              offset : {0}, buffer : {<<>>}]]

WOpen(p) ==
    /\ p \in DOMAIN procs /\ procs[p].pc = "open"
    /\ LET name == procs[p].dsn_details[procs[p].idx].report_domain
           opened == OpenAppend(files, name, today)
       IN /\ files' = opened
          /\ procs' = [procs EXCEPT ![p].pc = "write",
                                    ![p].offset = Len(opened[name].data)]
    /\ UNCHANGED <<today, subdirs, pc, runs, exitCode, extVars, bldVars>>

WBuffer(p) ==
    /\ p \in DOMAIN procs /\ procs[p].pc = "write"
    /\ procs' = [procs EXCEPT ![p].pc = "close",
                              ![p].buffer = JsonLine(procs[p].dsn_details[procs[p].idx])]
    /\ UNCHANGED <<today, subdirs, files, pc, runs, exitCode, extVars, bldVars>>

WClose(p) ==
    /\ p \in DOMAIN procs /\ procs[p].pc = "close"
    /\ LET dsn == procs[p].dsn_details[procs[p].idx]
       IN /\ files' = WriteAppend(files, dsn.report_domain, procs[p].offset,
                                  procs[p].buffer, today)
          /\ appended' = Append(appended, [file |-> dsn.report_domain, dsn |-> dsn])
    /\ procs' = [procs EXCEPT ![p].buffer = <<>>,
                              ![p].idx = @ + 1,
                              ![p].pc = IF procs[p].idx < Len(procs[p].dsn_details)
                                        THEN "open" ELSE "done"]
    /\ UNCHANGED <<today, subdirs, pc, runs, exitCode, argv, env, mail_data,
                   recipients, orig_subject, delayed, hdrs, dsn_details, idx, saved,
                   bldVars>>

NextWriters ==
    \/ \E p \in Writers : WOpen(p)
    \/ \E p \in Writers : WBuffer(p)
    \/ \E p \in Writers : WClose(p)

SpecWriters == InitWriters /\ [][NextWriters]_vars

(* ---------------------------- properties ------------------------------ *)
BuilderDone == pc = "bexited" /\ exitCode = 0
LinesFor(file) == {k \in 1..Len(output) : output[k].file = file}
LastRecord(file) ==
    LET lines == FileLines(files[file].data) IN JsonLoads(lines[Len(lines)])
OneLineFor(file) ==
    /\ Cardinality(LinesFor(file)) = 1
    /\ \A k \in LinesFor(file) : output[k].orig_rcpt = LastRecord(file).orig_rcpt

(* C1 as stated: after a builder run with a valid MIN_AGE, every file     *)
(* under domains/ older than MIN_AGE days has exactly one table line      *)
(* (its record's orig_rcpt, its name), and a file that is not older has   *)
(* none.                                                                  *)
C1_LineForEachOlderFile ==
    BuilderDone =>
        \A file \in DOMAIN files :
            IF AgeDays(file) > MIN_AGE THEN OneLineFor(file)
            ELSE LinesFor(file) = {}

(* C1 as the builder does it: after a builder run with a valid MIN_AGE,   *)
(* every file under domains/ whose age in days is less than MIN_AGE has   *)
(* exactly one table line (the orig_rcpt of its last record, its name),   *)
(* and a file whose age is MIN_AGE days or more has none.                 *)
C1_LineForEachYoungerFile ==
    BuilderDone =>
        \A file \in DOMAIN files :
            IF AgeDays(file) < MIN_AGE THEN OneLineFor(file)
            ELSE LinesFor(file) = {}

C1_Witness ==
    /\ BuilderDone
    /\ Len(output) = 1
    /\ \E f \in DOMAIN files, g \in DOMAIN files :
          /\ AgeDays(f) < MIN_AGE /\ AgeDays(g) >= MIN_AGE
          /\ Len(FileLines(files[f].data)) >= 2

MinAgeText == IF benv.MIN_AGE = None THEN <<"30">> ELSE benv.MIN_AGE
MinAgeInRange ==
    \E n \in 0..90 : MinAgeText = <<ToString(n)>>
BuilderRan == pc \in {"scan", "bexited"}

(* C7: a MIN_AGE that is no integer, below 0 or above 90 ends the builder *)
(* with exit code 1, no file listed and no table line; with an integer in *)
(* 0..90 (30 when unset) and the data directory in place the scan runs.   *)
C7_MinAgeValidation ==
    BuilderRan =>
        /\ ~MinAgeInRange =>
              /\ pc = "bexited" /\ exitCode = 1
              /\ ~listed /\ output = <<>>
        /\ (MinAgeInRange /\ benv.DATA_DIR = DataDir /\ "domains" \in subdirs) =>
              /\ listed
              /\ pc = "bexited" => exitCode = 0 /\ listing = {}

C7_Witness ==
    /\ pc = "bexited" /\ exitCode = 1 /\ ~listed
    /\ benv = [DATA_DIR |-> DataDir, MIN_AGE |-> <<"91">>]
    /\ "domains" \in subdirs /\ DOMAIN files # {}

(* the run got past the configuration and ended *)
ExtractorDone == pc = "exited" /\ exitCode = 0 /\ Len(argv) = 4
StdRun == Len(argv) = 4 /\ argv[3] = <<>>
ExtRun == Len(argv) = 4 /\ argv[3] # <<>>

(* the raw message holds the fields Action: delayed and Final-Recipient *)
RawHasDelayed(t) ==
    /\ \E i \in 1..(Len(t) - 2) : t[i] = "Action:" /\ t[i + 2] = "delayed"
    /\ \E j \in 1..Len(t) : t[j] = "Final-Recipient:"

(* C2 as stated: a run on a message that holds a delivery-status subpart  *)
(* with Action: delayed and Final-Recipient ends with no record appended  *)
(* and no message saved, whatever else the message holds.                 *)
C2_DelayedWritesNothing ==
    (ExtractorDone /\ (delayed \/ (mail_data # None /\ RawHasDelayed(mail_data))))
        => appended = <<>> /\ saved = <<>>

(* C2 for the standard extraction: a run with an empty extension that     *)
(* walks into a delivery-status subpart with Action: delayed and          *)
(* Final-Recipient ends there with exit code 0, no record appended and no *)
(* message saved, whatever parts came before.                             *)
C2_DelayedStdWritesNothing ==
    (StdRun /\ delayed) =>
        /\ pc = "exited" /\ exitCode = 0
        /\ appended = <<>> /\ saved = <<>> /\ dsn_details = <<>>

C2_Witness ==
    /\ StdRun /\ delayed /\ pc = "exited"
    /\ recipients # <<>>
    /\ orig_subject = <<"hello">>

HasRDFragment(t) == \E i \in 1..Len(t) : t[i] = RD

(* C3: a run of the standard extraction whose embedded subject holds no   *)
(* Report Domain: fragment saves the message as no_subject_re_match and   *)
(* appends no record.                                                     *)
C3_NoFragmentIsSaved ==
    (ExtractorDone /\ StdRun /\ exitCode = 0 /\ ~delayed
     /\ orig_subject # None /\ ~HasRDFragment(orig_subject))
        => saved = <<"no_subject_re_match">> /\ appended = <<>>

FromGoogleGroups(r) == r.action = <<"failed">> /\ r.diag_code = Absent
FallbackHeaders(h) ==
    /\ h.from = GGFrom
    /\ h.x_failed_recipients # None /\ h.references # None /\ h.in_reply_to # None
WalkEndedEmpty == StdRun /\ hdrs # NoHdrs

(* C4 as stated, its second half: with the Google Groups From and the     *)
(* three headers present but References different from In-Reply-To, the   *)
(* message is saved as no_dsn_details and nothing is appended.            *)
C4_MismatchIsNoDetails ==
    (ExtractorDone /\ WalkEndedEmpty /\ FallbackHeaders(hdrs)
     /\ hdrs.references # hdrs.in_reply_to)
        => saved = <<"no_dsn_details">> /\ appended = <<>>

(* C4: the fallback yields a record only when the standard extraction     *)
(* found no recipient, From is the Google Groups mailer-daemon, the three *)
(* headers are present and References equals In-Reply-To.  When           *)
(* References differs from In-Reply-To nothing is appended, and when the  *)
(* run gets to the fallback (the embedded subject is missing or gives a   *)
(* valid report domain) the message is saved as no_dsn_details.           *)
C4_FallbackOnlyOnExactHeaders ==
    /\ (\E i \in 1..Len(dsn_details) : FromGoogleGroups(dsn_details[i])) =>
          /\ recipients = <<>> /\ WalkEndedEmpty
          /\ FallbackHeaders(hdrs) /\ hdrs.references = hdrs.in_reply_to
    /\ (WalkEndedEmpty /\ FallbackHeaders(hdrs) /\ hdrs.references # hdrs.in_reply_to) =>
          /\ dsn_details = <<>> /\ appended = <<>> /\ pc = "exited"
          /\ ~get_report_domain_from_subject(orig_subject).exit
                => saved = <<"no_dsn_details">>

C4_Witness ==
    /\ ExtractorDone /\ WalkEndedEmpty /\ FallbackHeaders(hdrs)
    /\ hdrs.references # hdrs.in_reply_to
    /\ orig_subject # None
    /\ saved = <<"no_dsn_details">>

EnvDataDir == IF env = None THEN DefaultDir ELSE env
GivenDataDir == IF Len(argv) >= 4 THEN argv[4] ELSE EnvDataDir

(* C5: data_dir is optional.  Only a missing queue_id or extension, or a  *)
(* data directory (the argument, else DATA_DIR, else the default) that    *)
(* does not exist or is not writable, ends the run with exit code 1.      *)
C5_DataDirIsOptional ==
    (pc = "exited" /\ exitCode = 1) =>
        \/ Len(argv) < 3
        \/ ~(IsDir(GivenDataDir) /\ Writable(GivenDataDir))

(* the lines of the raw message, without their newlines *)
RECURSIVE RawLines(_)
RawLines(t) ==
    IF t = <<>> THEN <<>>
    ELSE LET N == {i \in 1..Len(t) : t[i] = NL}
             n == IF N = {} THEN Len(t) + 1 ELSE SetMin(N)
         IN <<SubSeq(t, 1, n - 1)>> \o RawLines(SubSeq(t, n + 1, Len(t)))

(* the texts a line gives between Report Domain: and Submitter *)
LineCaptures(l) ==
    {SubSeq(l, i + 2, e) : <<i, e>> \in
        {c \in (1..Len(l)) \X (1..Len(l)) :
            /\ l[c[1]] = RD /\ c[1] + 1 <= c[2] /\ c[2] + 2 <= Len(l)
            /\ l[c[1] + 1] \in WS /\ l[c[2] + 1] \in WS
            /\ l[c[2] + 2] \in SubmitterWords}}
MatchingLines(t) == {n \in 1..Len(RawLines(t)) : LineCaptures(RawLines(t)[n]) # {}}

OneExtensionRecord(domains) ==
    /\ saved = <<>>
    /\ Len(dsn_details) = 1
    /\ dsn_details[1].action = <<"any_reason">>
    /\ dsn_details[1].orig_rcpt = ReplaceEqAt(EXTENSION)
    /\ dsn_details[1].report_domain \in domains
    /\ appended = <<[file |-> dsn_details[1].report_domain, dsn |-> dsn_details[1]]>>

(* C6 as stated: with a non-empty extension that gives a valid address,   *)
(* a raw message holding some line that matches the pattern with a valid  *)
(* domain gives exactly one any_reason record, appended to that domain.   *)
C6_AnyMatchingLineGivesRecord ==
    (ExtractorDone /\ ExtRun /\ mail_data # None
     /\ \E n \in MatchingLines(mail_data) :
            \A c \in LineCaptures(RawLines(mail_data)[n]) : ValidDomain(c))
        => OneExtensionRecord(UNION {LineCaptures(RawLines(mail_data)[n]) :
                                        n \in MatchingLines(mail_data)})

(* C6: with a non-empty extension that gives a valid address, a raw       *)
(* message whose first line matching the pattern captures a valid domain  *)
(* gives exactly one record (action any_reason, orig_rcpt the address,    *)
(* report_domain that domain), appended to the file of that domain and    *)
(* nothing saved; an extension that gives no valid address saves the      *)
(* message as no_report_rcpt_in_extension and appends nothing; in both    *)
(* cases neither the delivery-status walk nor the Google Groups fallback  *)
(* runs.                                                                  *)
C6_FirstMatchingLineGivesRecord ==
    ExtRun =>
        /\ pc # "walk" /\ recipients = <<>> /\ orig_subject = None /\ hdrs = NoHdrs
        /\ \A i \in 1..Len(dsn_details) : ~FromGoogleGroups(dsn_details[i])
        /\ (ExtractorDone /\ ~ValidEmail(ReplaceEqAt(EXTENSION))) =>
              saved = <<"no_report_rcpt_in_extension">> /\ appended = <<>>
        /\ (ExtractorDone /\ mail_data # None /\ MatchingLines(mail_data) # {}) =>
              LET first == RawLines(mail_data)[SetMin(MatchingLines(mail_data))]
              IN (\A c \in LineCaptures(first) : ValidDomain(c))
                    => OneExtensionRecord(LineCaptures(first))

C6_Witness ==
    /\ ExtractorDone /\ ExtRun /\ mail_data # None
    /\ Cardinality(MatchingLines(mail_data)) = 2
    /\ Len(appended) = 1
    /\ appended[1].dsn.action = <<"any_reason">>

(* C9: a run in which some extracted record has no report_domain appends  *)
(* no record and saves the message as no_report_domain; and no run both   *)
(* appends a record and saves the message.                                *)
C9_NoPartialSuccess ==
    /\ ~(appended # <<>> /\ saved # <<>>)
    /\ (\E i \in 1..Len(dsn_details) : dsn_details[i].report_domain = None) =>
          /\ appended = <<>>
          /\ \A k \in 1..Len(saved) : saved[k] = "no_report_domain"
          /\ ExtractorDone => saved # <<>>

C9_Witness ==
    /\ ExtractorDone
    /\ Len(dsn_details) = 2
    /\ \A i \in 1..Len(dsn_details) : dsn_details[i].report_domain = None
    /\ saved = <<"no_report_domain", "no_report_domain">>
    /\ appended = <<>>

Dates == {DateStr(d) : d \in 0..today}
FilesWellFormed ==
    \A D \in DOMAIN files :
        LET lines == FileLines(files[D].data)
        IN /\ \A n \in 1..Len(lines) :
                /\ IsJsonLine(lines[n]) /\ Len(lines[n]) = 2
                /\ JsonLoads(lines[n]).report_domain = D
                /\ D \notin {None, Absent}
                /\ JsonLoads(lines[n]).orig_rcpt \notin {None, Absent, <<>>}
                /\ JsonLoads(lines[n]).date \in Dates
           /\ lines # <<>> => JsonLoads(lines[Len(lines)]).date = DateStr(files[D].mtime)
AppendOnly ==
    \A D \in DOMAIN files :
        /\ D \in DOMAIN files'
        /\ Len(files'[D].data) >= Len(files[D].data)
        /\ SubSeq(files'[D].data, 1, Len(files[D].data)) = files[D].data

(* C10: at all times every line of every file domains/D is a complete     *)
(* record with report_domain D, an orig_rcpt and the date of the run that *)
(* wrote it; and no step of an extractor or builder run removes a file or *)
(* changes or removes what a file already holds.                          *)
C10_DomainFilesOnlyGrow == []FilesWellFormed /\ [][AppendOnly]_vars

C10_Witness ==
    \E D \in DOMAIN files :
        LET lines == FileLines(files[D].data)
        IN /\ Len(lines) >= 2
           /\ JsonLoads(lines[1]).date # JsonLoads(lines[Len(lines)]).date
           /\ pc = "bexited" /\ output # <<>>

WritersDone == pc = "writers" /\ \A p \in Writers : procs[p].pc = "done"
CountIn(seq, x) == Cardinality({i \in 1..Len(seq) : seq[i] = x})
WrittenBy(p) == procs[p].dsn_details
FileRecords(D) ==
    LET lines == FileLines(files[D].data)
    IN [n \in 1..Len(lines) |-> JsonLoads(lines[n])]

(* C8: when two extractors append at the same time, under every           *)
(* interleaving of their opens, writes and closes every line of every     *)
(* domain file is at all times one complete record with its newline, and  *)
(* when both are done each file holds each record as many times as the    *)
(* two wrote it: none is lost, none is mixed with another.                *)
C8_ConcurrentAppendsKeepLines ==
    pc = "writers" =>
        /\ \A D \in DOMAIN files :
              \A n \in 1..Len(FileLines(files[D].data)) :
                  LET line == FileLines(files[D].data)[n]
                  IN IsJsonLine(line) /\ Len(line) = 2
        /\ WritersDone =>
              \A p \in Writers : \A i \in 1..Len(WrittenBy(p)) :
                  LET r == WrittenBy(p)[i]
                      D == r.report_domain
                  IN /\ D \in DOMAIN files
                     /\ CountIn(FileRecords(D), r)
                          = CountIn(WrittenBy(1), r) + CountIn(WrittenBy(2), r)
                     /\ Len(FileRecords(D))
                          = Cardinality({j \in 1..Len(WrittenBy(1)) :
                                            WrittenBy(1)[j].report_domain = D})
                            + Cardinality({j \in 1..Len(WrittenBy(2)) :
                                            WrittenBy(2)[j].report_domain = D})

C8_Witness ==
    /\ WritersDone
    /\ Len(WrittenBy(1)) = 1 /\ Len(WrittenBy(2)) = 1
    /\ WrittenBy(1)[1].report_domain = WrittenBy(2)[1].report_domain
    /\ WrittenBy(1)[1] # WrittenBy(2)[1]
    /\ procs[1].offset = 0 /\ procs[2].offset = 0

====
